---- MODULE Spec2Model ----
(***************************************************************************)
(* Model of gui/src/daemon/embedded.rs: EmbeddedDaemon, a wrapper that     *)
(* keeps an Option<DaemonHandle> behind a std::sync::Mutex and forwards    *)
(* commands to the in-process daemon.                                      *)
(*                                                                         *)
(* Threads (Procs) call command(), is_alive() and stop() concurrently on   *)
(* one instance.  A call is split at the points where it leaves the        *)
(* wrapper: Mutex::lock, the forwarded closure, DaemonHandle::is_alive and *)
(* DaemonHandle::stop.  The collaborator (liana::DaemonHandle and          *)
(* DaemonControl) is the environment: each of its calls may return any of  *)
(* its results or panic.                                                   *)
(***************************************************************************)
EXTENDS Integers, FiniteSets, Sequences, TLC

\* ---- bounds of the model ----
NumProcs == 2
MaxCalls == 3

Procs == 1..NumProcs
Sessions == {"s1", "s2"}
Details == {"D1", "D2"}
Values == {"V1", "V2"}
Methods == {"command", "is_alive", "stop"}

\* Option<DaemonHandle>::None
None == "None"

VARIABLES
    instance,     \* "pre" before start(), "live" once start() returned Ok(Self), "failed" once it returned Err
    startError,   \* the error DaemonHandle::start_default reported, if it did
    startResult,  \* what start() returned to its caller
    handle,       \* content of self.handle: None or Some(session)
    mutexOwner,   \* the set of threads holding a MutexGuard
    poisoned,     \* poison flag of the Mutex
    daemonAlive,  \* whether the daemon's poller thread is still running
    pc,           \* per thread: position in its current call
    call,         \* per thread: the method it is in
    h,            \* per thread: the local `h` that owns the taken DaemonHandle
    result,       \* per thread: the value its last call returned
    probed,       \* per thread: what h.is_alive() answered in its current call
    produced,     \* per thread: what the DaemonControl call of its closure, or DaemonHandle::stop, produced
    trace,        \* the last two of: a command() acquiring the guard on a session, its closure returning
    seen,         \* per thread: number of calls that had returned when it issued its call
    log,          \* the calls that returned, in order of return
    calls,        \* number of calls issued so far
    forwarded,    \* number of times the collaborator ran a forwarded closure
    probes,       \* number of DaemonHandle::is_alive calls
    shutdowns     \* number of DaemonHandle::stop calls

vars == <<instance, startError, startResult, handle, mutexOwner, poisoned, daemonAlive,
          pc, call, h, result, probed, produced, trace, seen, log, calls, forwarded, probes,
          shutdowns>>

\* ---- Result<T, DaemonError> ----
NoResult == [kind |-> "none", detail |-> "none"]
Ok(v) == [kind |-> "Ok", detail |-> v]
Unit == "unit"
\* DaemonError::Start(e)
DaemonErrorStart(d) == [kind |-> "Start", detail |-> d]
DaemonStopped == [kind |-> "DaemonStopped", detail |-> "none"]
Unexpected(d) == [kind |-> "Unexpected", detail |-> d]

\* impl From<PoisonError<T>> for DaemonError
FromPoisonError == Unexpected("Daemon panic")

\* .map_err(|e| DaemonError::Unexpected(e.to_string())) on DaemonHandle::stop
ShutdownError == Unexpected("shutdown")

\* what a DaemonControl call produces: a value, or for the fallible ones an error
ControlErrors == {"E1"}
ControlResults ==
    {[ok |-> TRUE, val |-> v] : v \in Values} \cup {[ok |-> FALSE, val |-> e] : e \in ControlErrors}
NoProduct == [ok |-> FALSE, val |-> "none"]

\* what DaemonHandle::stop produces: Ok(()) or an error
StopResult(ok) == [ok |-> ok, val |-> IF ok THEN Unit ELSE "stop failed"]

\* e.to_string(): the message of the collaborator's error
to_string(e) == CASE e = "E1" -> "command"

\* a closure that reports the collaborator's failure as the stopped state
ClosureErrAsStopped(c) == IF c.ok THEN Ok(c.val) ELSE DaemonStopped

\* the closures of this file: |daemon| Ok(daemon.get_info()), or
\* |daemon| daemon.list_spend(None).map_err(|e| DaemonError::Unexpected(e.to_string()))
Closure(c) == IF c.ok THEN Ok(c.val) ELSE Unexpected(to_string(c.val))

\* what a forwarded closure of this file returns: Ok(value) or
\* Err(DaemonError::Unexpected(e.to_string()))
MethodResults == {Closure(c) : c \in ControlResults}

Init ==
    /\ instance = "pre"
    /\ startError = "none"
    /\ startResult = NoResult
    /\ handle = None
    /\ mutexOwner = {}
    /\ poisoned = FALSE
    /\ daemonAlive = FALSE
    /\ pc = [p \in Procs |-> "idle"]
    /\ call = [p \in Procs |-> "none"]
    /\ h = [p \in Procs |-> None]
    /\ result = [p \in Procs |-> NoResult]
    /\ probed = [p \in Procs |-> "none"]
    /\ produced = [p \in Procs |-> NoProduct]
    /\ trace = <<>>
    /\ seen = [p \in Procs |-> 0]
    /\ log = <<>>
    /\ calls = 0
    /\ forwarded = 0
    /\ probes = 0
    /\ shutdowns = 0

\* ---- EmbeddedDaemon::start ----
\* DaemonHandle::start_default(config.clone()) returned Ok(handle)
StartOk(s) ==
    /\ instance = "pre"
    /\ instance' = "live"
    /\ handle' = s
    /\ daemonAlive' = TRUE
    /\ startResult' = Ok("Self")
    /\ UNCHANGED <<produced, trace, startError, mutexOwner, poisoned, pc, call, h, result, probed, seen, log,
                   calls, forwarded, probes, shutdowns>>

\* start() reporting the error as a generic one
StartFailureAsUnexpected(d) == Unexpected(d)

\* what start() returns for a start_default error: .map_err(DaemonError::Start)?
StartFailure(d) == DaemonErrorStart(d)

\* DaemonHandle::start_default(config.clone()) returned Err(d): no Self is built
StartFails(d) ==
    /\ instance = "pre"
    /\ instance' = "failed"
    /\ startError' = d
    /\ startResult' = StartFailure(d)
    /\ UNCHANGED <<produced, trace, handle, daemonAlive, mutexOwner, poisoned, pc, call, h, result,
                   probed, seen, log, calls, forwarded, probes, shutdowns>>

\* the daemon's poller thread stops on its own; DaemonHandle::is_alive sees it
DaemonDies ==
    /\ instance = "live"
    /\ daemonAlive
    /\ daemonAlive' = FALSE
    /\ UNCHANGED <<produced, trace, instance, startError, startResult, handle, mutexOwner, poisoned, pc, call, h,
                   result, probed, seen, log, calls, forwarded, probes, shutdowns>>

\* ---- the Mutex ----
\* a lock that does not exclude
MutexNeverBlocks == TRUE

\* Mutex::lock blocks until no thread holds the guard
MutexFree == mutexOwner = {}

\* a lock whose poison is ignored (PoisonError::into_inner)
LockErrIgnored == FALSE

\* Mutex::lock returns Err(PoisonError) when a holder panicked
LockErr == poisoned

\* a take that only borrows (as_ref)
TakeBorrows(slot) == slot

\* Option::take leaves None in the slot
Take(slot) == None

\* a shutdown whose failure puts the session back
SlotRestoredOnError(slot, taken, ok) == IF ok THEN slot ELSE taken

\* h.stop() consumes h: the slot stays as take() left it, whatever h.stop() returns
SlotAfterShutdown(slot, taken, ok) == slot

\* a probe whose answer is read the wrong way round
IsAliveProbeInverted == ~daemonAlive

\* h.is_alive(): whether the poller thread is still running
IsAliveProbe == daemonAlive

\* an is_alive that treats the empty slot as command does
IsAliveOnNoneAsCommand == DaemonStopped

\* is_alive on an empty slot: both `if let` are skipped, the final Ok(())
IsAliveOnNone == Ok(Unit)

\* a stop that treats the empty slot as command does
StopOnNoneAsCommand == DaemonStopped

\* stop on an empty slot: the `if let` is skipped, the final Ok(())
StopOnNone == Ok(Unit)

\* a thread calls one of the methods of a constructed instance
Call(p, m) ==
    /\ instance = "live"
    /\ pc[p] \in {"idle", "done"}
    /\ calls < MaxCalls
    /\ calls' = calls + 1
    /\ pc' = [pc EXCEPT ![p] = "lock"]
    /\ call' = [call EXCEPT ![p] = m]
    /\ result' = [result EXCEPT ![p] = NoResult]
    /\ probed' = [probed EXCEPT ![p] = "none"]
    /\ produced' = [produced EXCEPT ![p] = NoProduct]
    /\ seen' = [seen EXCEPT ![p] = Len(log)]
    /\ UNCHANGED <<trace, instance, startError, startResult, handle, mutexOwner, poisoned, daemonAlive,
                   h, log, forwarded, probes, shutdowns>>

\* the call of p returns r to its caller; the MutexGuard is dropped on the way out
Returns(p, r, pr) ==
    /\ pc' = [pc EXCEPT ![p] = "done"]
    /\ result' = [result EXCEPT ![p] = r]
    /\ probed' = [probed EXCEPT ![p] = pr]
    /\ mutexOwner' = mutexOwner \ {p}
    /\ log' = Append(log, [method |-> call[p], result |-> r, probe |-> pr])

\* an unwinding that leaves the guard held (no RAII release)
PanicsHoldingGuard(p) ==
    /\ pc' = [pc EXCEPT ![p] = "panicked"]
    /\ poisoned' = TRUE
    /\ h' = [h EXCEPT ![p] = None]
    /\ UNCHANGED <<produced, trace, instance, startError, startResult, handle, daemonAlive,
                   mutexOwner, call, result, probed, seen, log, calls, forwarded, probes,
                   shutdowns>>

\* the collaborator panics under p: the panic unwinds through the wrapper into the
\* caller, and the MutexGuard dropped while panicking poisons the Mutex
Panics(p) ==
    /\ pc' = [pc EXCEPT ![p] = "panicked"]
    /\ poisoned' = TRUE
    /\ mutexOwner' = mutexOwner \ {p}
    /\ h' = [h EXCEPT ![p] = None]
    /\ UNCHANGED <<produced, trace, instance, startError, startResult, handle, daemonAlive, call, result, probed,
                   seen, log, calls, forwarded, probes, shutdowns>>

\* a lock()'s error unwrapped: the acquiring thread panics in its turn
LockUnwrapPanics(p) == Panics(p)

\* the `?` on self.handle.lock(): the PoisonError (and the guard in it) is dropped
\* and the call returns DaemonError::from(PoisonError)
LockPoisoned(p) == Returns(p, FromPoisonError, "none")

\* the trace with the event e of thread p added, cut to its last two events
Traced(e, p) ==
    LET ev == [ev |-> e, proc |-> p]
    IN  IF Len(trace) < 2 THEN Append(trace, ev) ELSE <<trace[2], ev>>

\* a command that runs the closure a second time
InvokedTwice(n) == n + 2

\* Some(..) => method(control): the closure is an FnOnce, called once
Invoked(n) == n + 1

\* ---- EmbeddedDaemon::command ----
\* match self.handle.lock()?.as_ref() { Some(..) => method(control), None => Err(DaemonStopped) }
CommandLock(p) ==
    /\ pc[p] = "lock"
    /\ call[p] = "command"
    /\ MutexFree
    /\ IF LockErr
       THEN /\ LockPoisoned(p)
            /\ UNCHANGED <<forwarded, trace>>
       ELSE IF handle = None
       THEN /\ Returns(p, DaemonStopped, "none")
            /\ UNCHANGED <<forwarded, trace>>
       ELSE /\ pc' = [pc EXCEPT ![p] = "method"]
            /\ mutexOwner' = mutexOwner \cup {p}
            /\ forwarded' = Invoked(forwarded)
            /\ trace' = Traced("acquire", p)
            /\ UNCHANGED <<result, probed, log>>
    /\ UNCHANGED <<produced, instance, startError, startResult, handle, poisoned, daemonAlive, call, h,
                   seen, calls, probes, shutdowns>>

\* a command that gives the session up when its closure fails
SlotClearedOnError(slot, r) == IF r.kind = "Ok" THEN slot ELSE None

\* command only borrows the session (as_ref): the slot is as it was
SlotAfterCommand(slot, r) == slot

\* the DaemonControl call produces c; the closure's result is what method(control)
\* returns, and command returns it as it is
MethodReturns(p, c) ==
    /\ pc[p] = "method"
    /\ Returns(p, Closure(c), "none")
    /\ produced' = [produced EXCEPT ![p] = c]
    /\ trace' = Traced("finish", p)
    /\ handle' = SlotAfterCommand(handle, Closure(c))
    /\ UNCHANGED <<instance, startError, startResult, poisoned, daemonAlive, call, h,
                   seen, calls, forwarded, probes, shutdowns>>

\* method(control) panics
MethodPanics(p) ==
    /\ pc[p] = "method"
    /\ Panics(p)

\* ---- EmbeddedDaemon::is_alive ----
\* let mut handle = self.handle.lock()?; if let Some(h) = handle.as_ref() { h.is_alive() .. }
IsAliveLock(p) ==
    /\ pc[p] = "lock"
    /\ call[p] = "is_alive"
    /\ MutexFree
    /\ IF LockErr
       THEN /\ LockPoisoned(p)
            /\ UNCHANGED probes
       ELSE IF handle = None
       THEN /\ Returns(p, IsAliveOnNone, "none")
            /\ UNCHANGED probes
       ELSE /\ pc' = [pc EXCEPT ![p] = "probe"]
            /\ mutexOwner' = mutexOwner \cup {p}
            /\ probes' = probes + 1
            /\ UNCHANGED <<result, probed, log>>
    /\ UNCHANGED <<produced, trace, instance, startError, startResult, handle, poisoned, daemonAlive, call, h,
                   seen, calls, forwarded, shutdowns>>

\* h.is_alive() answers: true returns Ok(()); false goes on to
\* if let Some(h) = handle.take() { h.stop() .. }
ProbeReturns(p) ==
    /\ pc[p] = "probe"
    /\ IF IsAliveProbe
       THEN /\ Returns(p, Ok(Unit), "true")
            /\ UNCHANGED <<handle, h, shutdowns>>
       ELSE IF handle = None
       THEN /\ Returns(p, IsAliveOnNone, "false")
            /\ UNCHANGED <<handle, h, shutdowns>>
       ELSE /\ h' = [h EXCEPT ![p] = handle]
            /\ handle' = Take(handle)
            /\ pc' = [pc EXCEPT ![p] = "shutdown"]
            /\ probed' = [probed EXCEPT ![p] = "false"]
            /\ shutdowns' = shutdowns + 1
            /\ UNCHANGED <<result, mutexOwner, log>>
    /\ UNCHANGED <<produced, trace, instance, startError, startResult, poisoned, daemonAlive, call, seen, calls,
                   forwarded, probes>>

\* h.is_alive() panics
ProbePanics(p) ==
    /\ pc[p] = "probe"
    /\ Panics(p)

\* ---- EmbeddedDaemon::stop ----
\* let mut handle = self.handle.lock()?; if let Some(h) = handle.take() { h.stop() .. }
StopLock(p) ==
    /\ pc[p] = "lock"
    /\ call[p] = "stop"
    /\ MutexFree
    /\ IF LockErr
       THEN /\ LockPoisoned(p)
            /\ UNCHANGED <<handle, h, shutdowns>>
       ELSE IF handle = None
       THEN /\ Returns(p, StopOnNone, "none")
            /\ UNCHANGED <<handle, h, shutdowns>>
       ELSE /\ h' = [h EXCEPT ![p] = handle]
            /\ handle' = Take(handle)
            /\ pc' = [pc EXCEPT ![p] = "shutdown"]
            /\ mutexOwner' = mutexOwner \cup {p}
            /\ shutdowns' = shutdowns + 1
            /\ UNCHANGED <<result, probed, log>>
    /\ UNCHANGED <<produced, trace, instance, startError, startResult, poisoned, daemonAlive, call, seen, calls,
                   forwarded, probes>>

\* h.stop() returns in is_alive or stop: Err(e) becomes Unexpected through `?`,
\* Ok(()) falls through to the final Ok(())
ShutdownReturns(p, ok) ==
    /\ pc[p] = "shutdown"
    /\ Returns(p, IF ok THEN Ok(Unit) ELSE ShutdownError, probed[p])
    /\ h' = [h EXCEPT ![p] = None]
    /\ produced' = [produced EXCEPT ![p] = StopResult(ok)]
    /\ handle' = SlotAfterShutdown(handle, h[p], ok)
    /\ UNCHANGED <<trace, instance, startError, startResult, poisoned, daemonAlive, call, seen,
                   calls, forwarded, probes, shutdowns>>

\* h.stop() panics
ShutdownPanics(p) ==
    /\ pc[p] = "shutdown"
    /\ Panics(p)

Next ==
    \/ \E s \in Sessions : StartOk(s)
    \/ \E d \in Details : StartFails(d)
    \/ DaemonDies
    \/ \E p \in Procs, m \in Methods : Call(p, m)
    \/ \E p \in Procs : CommandLock(p)
    \/ \E p \in Procs, c \in ControlResults : MethodReturns(p, c)
    \/ \E p \in Procs : MethodPanics(p)
    \/ \E p \in Procs : IsAliveLock(p)
    \/ \E p \in Procs : ProbeReturns(p)
    \/ \E p \in Procs : ProbePanics(p)
    \/ \E p \in Procs : StopLock(p)
    \/ \E p \in Procs, ok \in BOOLEAN : ShutdownReturns(p, ok)
    \/ \E p \in Procs : ShutdownPanics(p)

Spec == Init /\ [][Next]_vars

\* the step in which thread p gets the guard, in whichever method it is
Lock(p) == CommandLock(p) \/ IsAliveLock(p) \/ StopLock(p)

\* the collaborator call made under thread p ends, by returning or by panicking
Ends(p) ==
    \/ \E c \in ControlResults : MethodReturns(p, c)
    \/ MethodPanics(p)
    \/ ProbeReturns(p)
    \/ ProbePanics(p)
    \/ \E ok \in BOOLEAN : ShutdownReturns(p, ok)
    \/ ShutdownPanics(p)

\* fair scheduling and terminating collaborator calls: a thread that can take the
\* guard again and again does take it, and a closure, probe or shutdown that was
\* started ends
Fairness ==
    /\ \A p \in Procs : SF_vars(Lock(p))
    /\ WF_vars(\E p \in Procs : Ends(p))

FairSpec == Spec /\ Fairness

TypeOK ==
    /\ instance \in {"pre", "live", "failed"}
    /\ handle \in Sessions \cup {None}
    /\ mutexOwner \subseteq Procs
    /\ poisoned \in BOOLEAN
    /\ \A p \in Procs : pc[p] \in {"idle", "lock", "method", "probe", "shutdown", "done", "panicked"}
    /\ calls \in 0..MaxCalls

\* ---- properties ----
\* the thread is running collaborator code against the session
InSession(p) == pc[p] \in {"method", "probe", "shutdown"}

\* a stop() call had returned success or a shutdown error when p issued its call
StopReturnedBefore(p) ==
    \E i \in 1..seen[p] :
        /\ log[i].method = "stop"
        /\ log[i].result \in {Ok(Unit), ShutdownError}

\* an is_alive() call whose probe answered false had returned when p issued its call
DeadProbeReturnedBefore(p) ==
    \E i \in 1..seen[p] :
        /\ log[i].method = "is_alive"
        /\ log[i].probe = "false"

\* the stop() calls that had returned when p issued its call
StopsBefore(p) == {i \in 1..seen[p] : log[i].method = "stop"}

\* the last of them: with p's own stop(), two consecutive stop() calls
LastStopBefore(p) == CHOOSE i \in StopsBefore(p) : \A j \in StopsBefore(p) : j <= i

\* C1: a command issued after a stop() call returned (success or shutdown error)
\* never runs its forwarded operation and returns DaemonStopped.
C1_StoppedAfterStop ==
    \A p \in Procs :
        (call[p] = "command" /\ StopReturnedBefore(p)) =>
            /\ pc[p] \in {"lock", "done"}
            /\ pc[p] = "done" => result[p] = DaemonStopped

C1_Witness ==
    \E p \in Procs :
        /\ call[p] = "command"
        /\ StopReturnedBefore(p)
        /\ pc[p] = "done"
        /\ result[p] = DaemonStopped
        /\ forwarded = 0

\* C2: at most one thread at a time runs a forwarded operation, the probe or the
\* shutdown against the session.
C2_MutualExclusion ==
    Cardinality({p \in Procs : InSession(p)}) <= 1

C2_Witness ==
    \E p, q \in Procs :
        /\ InSession(p)
        /\ pc[q] = "lock"
        /\ mutexOwner = {p}

\* C3: once the slot of an instance is empty, no step makes it hold a session again.
C3_NoneIsTerminal ==
    [][(instance = "live" /\ handle = None) => handle' = None]_vars

C3_Witness ==
    \E p \in Procs :
        /\ instance = "live"
        /\ handle = None
        /\ call[p] = "is_alive"
        /\ StopReturnedBefore(p)
        /\ pc[p] = "done"

\* C4 as stated: every call returns a typed outcome and no calling thread is ever
\* terminated abnormally, whatever the forwarded operation, the probe or the
\* shutdown does.
C4_Original ==
    \A p \in Procs :
        /\ pc[p] # "panicked"
        /\ pc[p] = "done" => result[p].kind \in {"Ok", "Start", "DaemonStopped", "Unexpected"}

\* C4 amended: every call that returns gives a typed outcome (success,
\* DaemonStopped or Unexpected), and a thread is terminated abnormally only by a
\* panic of its own forwarded operation, probe or shutdown: acquiring the guard,
\* poisoned or not, never terminates it.
C4_PanicOnlyFromCollaborator ==
    [][\A p \in Procs :
        /\ (pc[p] # "panicked" /\ pc'[p] = "panicked") => InSession(p)
        /\ (pc[p] = "lock" /\ pc'[p] # "lock") =>
               \/ pc'[p] = "done" /\ result'[p].kind \in {"Ok", "DaemonStopped", "Unexpected"}
               \/ InSession(p)'
        /\ (InSession(p) /\ pc'[p] = "done") =>
               result'[p].kind \in {"Ok", "DaemonStopped", "Unexpected"}]_vars

C4_Witness ==
    \E p, q \in Procs :
        /\ pc[p] = "panicked"
        /\ call[p] = "stop"
        /\ poisoned
        /\ call[q] = "is_alive"
        /\ pc[q] = "done"
        /\ result[q] = FromPoisonError

\* C5: a thread that acquires the guard after a holder panicked gets
\* Unexpected("Daemon panic") as its return value and goes on living.
C5_PoisonIsAnError ==
    [][\A p \in Procs :
        (poisoned /\ pc[p] = "lock" /\ pc'[p] # "lock") =>
            /\ pc'[p] = "done"
            /\ result'[p] = FromPoisonError]_vars

C5_Witness ==
    \E p, q \in Procs :
        /\ pc[q] = "panicked"
        /\ call[q] = "command"
        /\ pc[p] = "done"
        /\ result[p] = FromPoisonError

\* C6 as stated: two consecutive stop() calls both return success and the second
\* performs no shutdown.
C6_Original ==
    \A p \in Procs :
        (call[p] = "stop" /\ StopsBefore(p) # {}) =>
            /\ pc[p] \in {"lock", "done"}
            /\ log[LastStopBefore(p)].result = Ok(Unit)
            /\ pc[p] = "done" => result[p] = Ok(Unit)

\* C6 amended: of two consecutive stop() calls the second performs no shutdown, and
\* it returns success when the first returned success or a shutdown error; the
\* first returns Unexpected instead of success when its shutdown call fails, and
\* both return Unexpected when the guard is poisoned.
C6_SecondStopIsNoOp ==
    \A p \in Procs :
        (call[p] = "stop" /\ StopsBefore(p) # {}) =>
            LET first == log[LastStopBefore(p)].result IN
            /\ pc[p] \in {"lock", "done"}
            /\ first \in {Ok(Unit), ShutdownError, FromPoisonError}
            /\ (pc[p] = "done" /\ first \in {Ok(Unit), ShutdownError}) => result[p] = Ok(Unit)
            /\ (pc[p] = "done" /\ first = FromPoisonError) => result[p] = FromPoisonError

C6_Witness ==
    \E p \in Procs :
        /\ call[p] = "stop"
        /\ StopsBefore(p) # {}
        /\ log[LastStopBefore(p)].result = ShutdownError
        /\ pc[p] = "done"
        /\ result[p] = Ok(Unit)
        /\ shutdowns = 1

\* C7: when is_alive() returns after its probe answered false, the slot is empty,
\* whether the shutdown succeeded or failed.
C7_DeadProbeStops ==
    \A p \in Procs :
        (call[p] = "is_alive" /\ probed[p] = "false" /\ pc[p] = "done") =>
            /\ handle = None
            /\ result[p] \in {Ok(Unit), ShutdownError}

C7_Witness ==
    \E p \in Procs :
        /\ call[p] = "is_alive"
        /\ probed[p] = "false"
        /\ pc[p] = "done"
        /\ result[p] = ShutdownError
        /\ handle = None

\* C8 as stated: an is_alive() issued after a dead-probe is_alive() returned
\* invokes no shutdown and returns DaemonStopped.
C8_Original ==
    \A p \in Procs :
        (call[p] = "is_alive" /\ DeadProbeReturnedBefore(p)) =>
            /\ pc[p] \in {"lock", "done"}
            /\ shutdowns = 1
            /\ pc[p] = "done" => result[p] = DaemonStopped

\* C8 amended: an is_alive() call whose probe reports false triggers exactly one
\* shutdown attempt; a second is_alive() call afterwards invokes neither the probe
\* nor the shutdown again and returns success (Ok), not DaemonStopped.
C8_SecondIsAliveIsOk ==
    /\ (\E i \in 1..Len(log) : log[i].method = "is_alive" /\ log[i].probe = "false") =>
           shutdowns = 1
    /\ \A p \in Procs :
           (call[p] = "is_alive" /\ DeadProbeReturnedBefore(p)) =>
               /\ pc[p] \in {"lock", "done"}
               /\ pc[p] = "done" => result[p] = Ok(Unit)

C8_Witness ==
    \E p \in Procs :
        /\ call[p] = "is_alive"
        /\ DeadProbeReturnedBefore(p)
        /\ pc[p] = "done"
        /\ result[p] = Ok(Unit)
        /\ probes = 1
        /\ shutdowns = 1

\* C9: when the probe of is_alive() answers true on a Running instance, the call
\* returns Ok(()), no shutdown is invoked and the slot keeps its session.
C9_LiveProbeKeepsRunning ==
    [][\A p \in Procs :
        (pc[p] = "probe" /\ daemonAlive /\ pc'[p] \notin {"probe", "panicked"}) =>
            /\ pc'[p] = "done"
            /\ result'[p] = Ok(Unit)
            /\ handle \in Sessions
            /\ handle' = handle
            /\ shutdowns' = shutdowns]_vars

C9_Witness ==
    \E p \in Procs :
        /\ call[p] = "is_alive"
        /\ probed[p] = "true"
        /\ pc[p] = "done"
        /\ result[p] = Ok(Unit)
        /\ handle \in Sessions
        /\ shutdowns = 0

CommandsReturned == {i \in 1..Len(log) : log[i].method = "command"}

ReturnedProduct(p) ==
    /\ produced[p] # NoProduct
    /\ produced[p].ok => result[p] = Ok(produced[p].val)
    /\ ~produced[p].ok => result[p].kind = "Unexpected" /\ result[p] # FromPoisonError

\* C12 as stated: a command that returned on an instance whose slot holds a session
\* returned what its forwarded operation produced, never DaemonStopped or Start.
C12_Original ==
    \A p \in Procs :
        (call[p] = "command" /\ pc[p] = "done" /\ handle \in Sessions) =>
            /\ ReturnedProduct(p)
            /\ result[p].kind \notin {"DaemonStopped", "Start"}

\* C12 amended: a command on a Running instance whose guard is not poisoned returns
\* exactly what the forwarded operation produced (the success value unchanged, a
\* failure as Unexpected); on a poisoned guard it returns Unexpected without
\* invoking the forwarded operation; it never returns DaemonStopped or Start while
\* the slot holds a session.
C12_ReturnsProduct ==
    \A p \in Procs :
        (call[p] = "command" /\ pc[p] = "done" /\ handle \in Sessions) =>
            /\ result[p].kind \notin {"DaemonStopped", "Start"}
            /\ ~poisoned => ReturnedProduct(p)
            /\ poisoned =>
                   \/ ReturnedProduct(p)
                   \/ produced[p] = NoProduct /\ result[p] = FromPoisonError

C12_Witness ==
    \E p, q \in Procs :
        /\ p # q
        /\ handle \in Sessions
        /\ call[p] = "command" /\ pc[p] = "done"
        /\ produced[p] = [ok |-> TRUE, val |-> "V2"] /\ result[p] = Ok("V2")
        /\ call[q] = "command" /\ pc[q] = "done"
        /\ produced[q] = [ok |-> FALSE, val |-> "E1"] /\ result[q] = Unexpected("command")

\* C13 as stated: DaemonHandle::stop is called at most once, and once in every
\* execution in which a stop() call returned.
C13_Original ==
    /\ shutdowns <= 1
    /\ (\E i \in 1..Len(log) : log[i].method = "stop") => shutdowns = 1

\* C13 amended: the session is consumed by the collaborator's shutdown at most once
\* under any interleaving of stop() and is_alive() calls, and exactly once in every
\* execution in which a stop() call returns success or a shutdown error; a stop()
\* that returns Unexpected because the guard is poisoned shuts nothing down.
C13_ShutdownOnce ==
    /\ shutdowns <= 1
    /\ (\E i \in 1..Len(log) :
            /\ log[i].method = "stop"
            /\ log[i].result \in {Ok(Unit), ShutdownError}) => shutdowns = 1
    /\ \A p, q \in Procs : (pc[p] = "shutdown" /\ pc[q] = "shutdown") => p = q

C13_Witness ==
    \E i, j \in 1..Len(log) :
        /\ log[i].method = "is_alive"
        /\ log[i].probe = "false"
        /\ log[j].method = "stop"
        /\ log[j].result = Ok(Unit)
        /\ shutdowns = 1

\* the positions of the trace where a command acquired the guard on a session
Acquisitions == {i \in 1..Len(trace) : trace[i].ev = "acquire"}

\* C14: closures run in the order in which their commands acquired the guard: the
\* closure of an earlier acquirer has finished before the next acquirer starts its
\* own (no acquisition follows another without that finish in between); and any
\* waiting command may be the next to acquire a free guard.
C14_AcquisitionOrder ==
    /\ \A i, j \in Acquisitions :
           i < j => \E k \in (i + 1)..(j - 1) :
                        trace[k] = [ev |-> "finish", proc |-> trace[i].proc]
    /\ \A p \in Procs :
           LET running == \E i \in Acquisitions :
                              /\ trace[i].proc = p
                              /\ \A k \in (i + 1)..Len(trace) : trace[k].proc # p
           IN  /\ pc[p] = "method" => running
               /\ running => pc[p] \in {"method", "panicked"}
    /\ \A p \in Procs :
           (pc[p] = "lock" /\ call[p] = "command" /\ MutexFree) => ENABLED CommandLock(p)

C14_Witness ==
    \E p, q \in Procs :
        /\ p < q
        /\ trace = <<[ev |-> "finish", proc |-> q], [ev |-> "acquire", proc |-> p]>>
        /\ pc[p] = "method"
        /\ pc[q] = "lock"

C16_StopFailureStillStops ==
    \A p \in Procs :
        call[p] = "stop" =>
            /\ pc[p] = "shutdown" => (handle = None /\ h[p] \in Sessions)
            /\ (pc[p] = "done" /\ produced[p] = StopResult(FALSE)) =>
                   /\ result[p].kind = "Unexpected"
                   /\ result[p] # FromPoisonError
                   /\ handle = None

C16_Witness ==
    \E p \in Procs :
        /\ call[p] = "stop"
        /\ pc[p] = "done"
        /\ produced[p] = StopResult(FALSE)
        /\ result[p] = ShutdownError
        /\ handle = None

\* C17: once a holder of the guard has panicked, the guard stays poisoned, every
\* call that gets the guard returns Unexpected, and the closure, the probe and the
\* shutdown are never called again: a session still in the slot stays there.
C17_PoisonIsPermanent ==
    [][poisoned =>
        /\ poisoned'
        /\ \A p \in Procs : ~InSession(p) /\ ~InSession(p)'
        /\ handle' = handle
        /\ forwarded' = forwarded /\ probes' = probes /\ shutdowns' = shutdowns
        /\ \A p \in Procs :
               (pc[p] = "lock" /\ pc'[p] # "lock") =>
                   (pc'[p] = "done" /\ result'[p].kind = "Unexpected")]_vars

C17_Witness ==
    \E p \in Procs :
        /\ poisoned
        /\ handle \in Sessions
        /\ call[p] = "stop"
        /\ pc[p] = "done"
        /\ result[p] = FromPoisonError
        /\ shutdowns = 0

\* C18: no step of a command() call changes the slot, whatever its closure returns
\* and whether or not the daemon has died; the slot is emptied only by the step of
\* an is_alive() or stop() call that goes on to DaemonHandle::stop.
C18_CommandKeepsSlot ==
    [][/\ \A p \in Procs :
              (call[p] = "command" /\ pc[p] \in {"lock", "method"} /\ pc'[p] # pc[p]) =>
                  handle' = handle
       /\ (handle \in Sessions /\ handle' # handle) =>
              \E p \in Procs :
                  /\ call[p] \in {"is_alive", "stop"}
                  /\ pc[p] # "shutdown"
                  /\ pc'[p] = "shutdown"]_vars

C18_Witness ==
    \E p \in Procs :
        /\ call[p] = "command"
        /\ pc[p] = "done"
        /\ result[p] = Unexpected("command")
        /\ ~daemonAlive
        /\ probes = 0
        /\ handle \in Sessions

\* C19: once DaemonHandle::stop has been called on the session, the slot is empty
\* and no closure and no probe runs against the session.
C19_NoUseAfterShutdown ==
    shutdowns >= 1 =>
        /\ handle = None
        /\ \A p \in Procs : pc[p] \notin {"method", "probe"}

C19_Witness ==
    \E p, q \in Procs :
        /\ pc[q] = "shutdown"
        /\ h[q] \in Sessions
        /\ pc[p] = "lock"
        /\ call[p] = "command"
        /\ forwarded >= 1

\* a call had returned the error of a failed shutdown when p issued its call
ShutdownErrorReturnedBefore(p) ==
    \E i \in 1..seen[p] : log[i].result = ShutdownError

\* C20: at most one call returns the error of a failed shutdown, and every stop()
\* and is_alive() issued after it returns Ok(()) without probe or shutdown.
C20_ShutdownErrorOnce ==
    /\ Cardinality({i \in 1..Len(log) : log[i].result = ShutdownError}) <= 1
    /\ \A p \in Procs :
           (call[p] \in {"stop", "is_alive"} /\ ShutdownErrorReturnedBefore(p)) =>
               /\ pc[p] \in {"lock", "done"}
               /\ pc[p] = "done" => result[p] = Ok(Unit)

C20_Witness ==
    \E p \in Procs :
        /\ call[p] = "is_alive"
        /\ ShutdownErrorReturnedBefore(p)
        /\ pc[p] = "done"
        /\ result[p] = Ok(Unit)
        /\ ~poisoned

====
